---- MODULE Spec2Model ----
(***************************************************************************)
(* Account backup task handler (apps/assets/task_handlers/backup/          *)
(* handlers.py): the row projector, the two type collectors and the       *)
(* AccountBackupHandler run, modelled step by step.                        *)
(***************************************************************************)
EXTENDS Integers, Sequences, FiniteSets, TLC

\* ------------------------------------------------------------------ bounds
MaxTypes == 2
MaxAccounts == 2
MaxRecipients == 2
MaxStore == 3
MaxFields == 2

\* ------------------------------------------------------- program constants
\* reason[:1024] in step_perform_task_update
ReasonMax == 1024

\* ------------------------------------------------------------------ strings
\* A string is modelled by the text it is a prefix of and its length.
Str(t, n) == [txt |-> t, len |-> n]

\* s[:k]
Slice(s, k) == [txt |-> s.txt, len |-> IF s.len <= k THEN s.len ELSE k]

\* error = '-' in _run
Dash == Str("-", 1)

\* value of Execution.reason before the run touches it
Unset == Str("<unset>", 0)

\* str(KeyError(field))
KeyErrorMsg(field) == Str(field, 10)

\* messages of the errors raised by the collaborators (store, spreadsheet
\* writer, archive encryptor, notification channel, file system, database)
ErrMsgs == {Str("short", 5), Str("long", ReasonMax + 1)}

None == [txt |-> "<none>", len |-> 0]

\* ------------------------------------------------------- ordered mappings
\* A Python dict / OrderedDict is a sequence of <<key, value>> pairs with
\* distinct keys; assignment to an existing key keeps its position.
Keys(d) == {d[i][1] : i \in 1..Len(d)}

Get(d, k) == d[CHOOSE i \in 1..Len(d) : d[i][1] = k][2]

DictSet(d, k, v) ==
    IF k \in Keys(d)
    THEN [i \in 1..Len(d) |-> IF d[i][1] = k THEN <<k, v>> ELSE d[i]]
    ELSE Append(d, <<k, v>>)

RECURSIVE DictUpdate(_, _)
DictUpdate(d, e) ==
    IF e = <<>> THEN d
    ELSE DictUpdate(DictSet(d, Head(e)[1], Head(e)[2]), Tail(e))

DictKeys(d) == [i \in 1..Len(d) |-> d[i][1]]
DictValues(d) == [i \in 1..Len(d) |-> d[i][2]]

\* --------------------------------------------------------- row projector
\* serializer data: a sequence of entries [k, dict, v]; dict = TRUE when v
\* is an OrderedDict (a sequence of entries), else v is a leaf value.
Leaf(k, v) == [k |-> k, dict |-> FALSE, v |-> v, sub |-> <<>>]
Nested(k, s) == [k |-> k, dict |-> TRUE, v |-> "", sub |-> s]

\* unpack_data with data.setdefault(k, v) in place of data[k] = v
RECURSIVE unpack_dataKeepFirst(_, _)
unpack_dataKeepFirst(serializer_data, data) ==
    IF serializer_data = <<>> THEN data
    ELSE LET e == Head(serializer_data)
             d == IF e.dict THEN unpack_dataKeepFirst(e.sub, data)
                  ELSE IF e.k \in Keys(data) THEN data
                  ELSE DictSet(data, e.k, e.v)
         IN unpack_dataKeepFirst(Tail(serializer_data), d)

RECURSIVE unpack_data(_, _)
unpack_data(serializer_data, data) ==
    IF serializer_data = <<>> THEN data
    ELSE LET e == Head(serializer_data)
             d == IF e.dict THEN unpack_data(e.sub, data)
                  ELSE DictSet(data, e.k, e.v)
         IN unpack_data(Tail(serializer_data), d)

\* a serializer: Meta.fields_backup (when has_backup) and fields, a sequence
\* of [name, nested, label, sub]
Field(n, l) == [name |-> n, nested |-> FALSE, label |-> l, sub |-> <<>>]
SubSerializer(n, s) == [name |-> n, nested |-> TRUE, label |-> "", sub |-> s]

FieldNames(fields) == [i \in 1..Len(fields) |-> fields[i].name]
FieldOf(fields, n) == fields[CHOOSE i \in 1..Len(fields) : fields[i].name = n]

RECURSIVE HeaderLoop(_, _, _)
RECURSIVE get_header_fields(_)
get_header_fields(serializer) ==
    LET backup_fields == IF serializer.has_backup THEN serializer.fields_backup
                         ELSE FieldNames(serializer.fields)
    IN HeaderLoop(serializer, backup_fields, <<>>)
HeaderLoop(serializer, backup_fields, header_fields) ==
    IF backup_fields = <<>> THEN header_fields
    ELSE LET v == FieldOf(serializer.fields, Head(backup_fields))
             h == IF v.nested
                  THEN DictUpdate(header_fields, get_header_fields(v.sub))
                  ELSE DictSet(header_fields, Head(backup_fields), v.label)
         IN HeaderLoop(serializer, Tail(backup_fields), h)

\* str(value)
PyStr(v) == IF v = "<None>" THEN "None" ELSE v

\* RowLoop with data.get(field, '') in place of data[field]
RECURSIVE RowLoopSwallowsMissing(_, _, _)
RowLoopSwallowsMissing(header_fields, data, row_dict) ==
    IF header_fields = <<>> THEN [ok |-> TRUE, row |-> row_dict, err |-> None]
    ELSE LET field == Head(header_fields)[1]
             header_name == Head(header_fields)[2]
         IN RowLoopSwallowsMissing(Tail(header_fields), data,
                DictSet(row_dict, header_name,
                        IF field \in Keys(data) THEN PyStr(Get(data, field)) ELSE ""))

\* the loop of create_row: [ok, row, err]
RECURSIVE RowLoop(_, _, _)
RowLoop(header_fields, data, row_dict) ==
    IF header_fields = <<>> THEN [ok |-> TRUE, row |-> row_dict, err |-> None]
    ELSE LET field == Head(header_fields)[1]
             header_name == Head(header_fields)[2]
         IN IF field \notin Keys(data)
            THEN [ok |-> FALSE, row |-> <<>>, err |-> KeyErrorMsg(field)]
            ELSE RowLoop(Tail(header_fields), data,
                         DictSet(row_dict, header_name, PyStr(Get(data, field))))

create_row(account, serializer_cls, header_fields) ==
    LET hf == IF header_fields = <<>> THEN get_header_fields(serializer_cls)
              ELSE header_fields
        data == unpack_data(account.data, <<>>)
    IN RowLoop(hf, data, <<>>)

\* ------------------------------------------------------------ serializers
AccountSecretSerializer ==
    [has_backup |-> TRUE,
     fields_backup |-> <<"hostname", "username", "password">>,
     fields |-> <<Field("id", "ID"), Field("hostname", "Hostname"),
                  Field("username", "Username"), Field("password", "Password")>>]

SystemUserSerializer ==
    [has_backup |-> FALSE, fields_backup |-> <<>>,
     fields |-> <<Field("username", "Username"), Field("password", "Password")>>]

AppAccountSecretSerializer ==
    [has_backup |-> TRUE,
     fields_backup |-> <<"app", "systemuser">>,
     fields |-> <<Field("id", "ID"), Field("app", "App"),
                  SubSerializer("systemuser", SystemUserSerializer)>>]

\* AppType.get_label
AppTypeLabel(app_type) == IF app_type = "mysql" THEN "MySQL" ELSE "Redis"

\* AuthBook._meta.verbose_name
AuthBookVerboseName == "AuthBook"

\* ---------------------------------------------------------------- accounts
\* the account records a run can meet (after load_auth): category, type and
\* the serializer's data
AssetAccount ==
    [category |-> "asset", type |-> "",
     data |-> <<Leaf("id", "1"), Leaf("hostname", "web"),
                Leaf("username", "root"), Leaf("password", "<None>")>>]
AssetAccountNoPassword ==
    [category |-> "asset", type |-> "",
     data |-> <<Leaf("id", "2"), Leaf("hostname", "web"), Leaf("username", "root")>>]
AppAccountMysql ==
    [category |-> "application", type |-> "mysql",
     data |-> <<Leaf("id", "3"), Leaf("app", "db"), Leaf("username", "app"),
                Nested("systemuser", <<Leaf("username", "admin"), Leaf("password", "pw")>>)>>]
AppAccountRedis ==
    [category |-> "application", type |-> "redis",
     data |-> <<Leaf("id", "4"), Leaf("app", "cache"),
                Nested("systemuser", <<Leaf("username", "admin"), Leaf("password", "pw")>>)>>]
AppAccountNoPassword ==
    [category |-> "application", type |-> "mysql",
     data |-> <<Leaf("id", "5"), Leaf("app", "db"),
                Nested("systemuser", <<Leaf("username", "admin")>>)>>]

AccountKinds == {AssetAccount, AssetAccountNoPassword, AppAccountMysql,
                 AppAccountRedis, AppAccountNoPassword}

SeqsUpTo(S, n) == UNION {[1..k -> S] : k \in 0..n}

IsAsset(a) == a.category = "asset"
IsApplication(a) == a.category = "application"

\* ----------------------------------------------------------- collectors
\* data_map: an ordered mapping sheet name -> rows; the result of
\* create_data_map is [ok, data_map, err]
AppendTo(data_map, sheet_name, row) ==
    DictSet(data_map, sheet_name,
            Append(IF sheet_name \in Keys(data_map) THEN Get(data_map, sheet_name)
                   ELSE <<>>, row))

\* DataMapLoop without the test of lines 87 and 112: a header row per account
RECURSIVE DataMapLoopHeaderEachRow(_, _, _, _, _)
DataMapLoopHeaderEachRow(accts, serializer_cls, header_fields, per_type, data_map) ==
    IF accts = <<>> THEN [ok |-> TRUE, data_map |-> data_map, err |-> None]
    ELSE LET account == Head(accts)
             sheet_name == IF per_type THEN AppTypeLabel(account.type)
                           ELSE AuthBookVerboseName
             r == create_row(account, serializer_cls, header_fields)
             m1 == AppendTo(data_map, sheet_name, DictKeys(r.row))
             m2 == AppendTo(m1, sheet_name, DictValues(r.row))
         IN IF ~r.ok THEN [ok |-> FALSE, data_map |-> <<>>, err |-> r.err]
            ELSE DataMapLoopHeaderEachRow(Tail(accts), serializer_cls, header_fields,
                                          per_type, m2)

RECURSIVE DataMapLoop(_, _, _, _, _)
DataMapLoop(accts, serializer_cls, header_fields, per_type, data_map) ==
    IF accts = <<>> THEN [ok |-> TRUE, data_map |-> data_map, err |-> None]
    ELSE LET account == Head(accts)
             sheet_name == IF per_type THEN AppTypeLabel(account.type)
                           ELSE AuthBookVerboseName
             r == create_row(account, serializer_cls, header_fields)
             m1 == IF sheet_name \notin Keys(data_map)
                   THEN AppendTo(data_map, sheet_name, DictKeys(r.row))
                   ELSE data_map
             m2 == AppendTo(m1, sheet_name, DictValues(r.row))
         IN IF ~r.ok THEN [ok |-> FALSE, data_map |-> <<>>, err |-> r.err]
            ELSE DataMapLoop(Tail(accts), serializer_cls, header_fields, per_type, m2)

AssetCreateDataMap(all) ==
    LET accts == SelectSeq(all, IsAsset)
    IN IF accts = <<>> THEN [ok |-> TRUE, data_map |-> <<>>, err |-> None]
       ELSE DataMapLoop(accts, AccountSecretSerializer,
                        get_header_fields(AccountSecretSerializer), FALSE, <<>>)

AppCreateDataMap(all) ==
    DataMapLoop(SelectSeq(all, IsApplication), AppAccountSecretSerializer,
                <<>>, TRUE, <<>>)

\* handler_map.get(account_type): the category label of the handler, or ""
HandlerLabel(account_type) ==
    CASE account_type = "asset" -> "Asset"
      [] account_type = "application" -> "Application"
      [] OTHER -> ""

create_data_map(account_type, all) ==
    IF account_type = "asset" THEN AssetCreateDataMap(all) ELSE AppCreateDataMap(all)

PlanName == "plan"

\* get_filename(plan_name) at time t
get_filename(account_type, plan_name, t) ==
    [plan |-> plan_name, label |-> HandlerLabel(account_type), t |-> t, ext |-> "xlsx"]

\* the attachment path of send_backup_mail at time t
ArchiveName(plan_name, t) ==
    [plan |-> plan_name, label |-> "", t |-> t, ext |-> "zip"]

\* a file of the temporary directory that is not of this run
ForeignFile == [plan |-> "other", label |-> "Asset", t |-> 0, ext |-> "xlsx"]

\* ------------------------------------------------------------------- users
\* the User table: id -> secret_key ("" when the user has none); an id of
\* UserIds outside ExistingUsers is a recipient deleted after the snapshot
UserIds == 1..4
ExistingUsers == {1, 2, 3}
SecretKey(u) == CASE u = 1 -> "k1" [] u = 2 -> "" [] OTHER -> "k3"

\* user.secret_key.encode('utf8')
Encode(s) == <<"utf8", s>>

Categories == {"asset", "application", "database"}

Perms(S) == {s \in [1..Cardinality(S) -> S] : \A i, j \in 1..Cardinality(S) : s[i] = s[j] => i = j}


\* -------------------------------------------------------------------- state
VARIABLES
    types,            \* execution.types
    recipients,       \* execution.plan_snapshot.get('recipients')
    accounts,         \* the account store
    maps,             \* what each collector's create_data_map gives for that store
    execution,        \* the Execution Record object: reason, is_success
    saved,            \* the Execution Record as persisted by save()
    is_frozen,        \* self.is_frozen
    pc,               \* position in run / _run
    is_success,       \* local of _run
    error,            \* local of _run
    exc,              \* the exception in flight, or None
    files,            \* local of create_excel, argument of send_backup_mail
    idx,              \* position of create_excel's loop in types
    users,            \* the recipients queryset, in iteration order
    ui,               \* position of send_backup_mail's loop in users
    attachment_list,  \* local of send_backup_mail
    ri,               \* position of the os.remove loop in files
    tmp,              \* the paths that exist in the temporary directory
    clock,            \* time.time(): each path built from it gets a later reading
    collected,        \* number of create_data_map calls so far
    written,          \* spreadsheet files saved so far: [path, data_map]
    archives,         \* archives built so far: [path, password, files, user]
    sent,             \* notifications published so far: [user, attachments]
    removed,          \* paths removed so far by os.remove
    caught,           \* the message of the exception _run caught, or None
    assigns,          \* assignments of execution.reason / is_success so far
    saves,            \* calls of execution.save() so far
    commits,          \* calls of execution.save() that returned
    arg,              \* the argument of a collector or projector call made on its own
    out               \* the value that call returned

probe == <<arg, out>>
inputs == <<types, recipients, accounts, maps>>
record == <<execution, saved, assigns, saves, commits>>
locals == <<is_success, error, files, idx, users, ui, attachment_list, ri>>
effects == <<tmp, clock, collected, written, archives, sent, removed>>
vars == <<probe, inputs, record, locals, effects, is_frozen, pc, exc, caught>>

\* execution.types: the requested categories, each at most once
TypeSeqs == {s \in SeqsUpTo(Categories, MaxTypes) :
                \A i, j \in 1..Len(s) : s[i] = s[j] => i = j}

\* handler.create_data_map() of each handler of handler_map, for a store
CollectorResults(store) ==
    [c \in {"asset", "application"} |-> create_data_map(c, store)]

\* the account records of a run
StoreKinds == {AssetAccount, AppAccountMysql, AppAccountNoPassword}

Init ==
    /\ types \in TypeSeqs
    /\ recipients \in {r \in SUBSET UserIds : Cardinality(r) <= MaxRecipients}
    /\ accounts \in SeqsUpTo(StoreKinds, MaxAccounts)
    /\ maps = CollectorResults(accounts)
    /\ execution = [reason |-> Unset, is_success |-> FALSE]
    /\ saved = [reason |-> Unset, is_success |-> FALSE]
    /\ is_frozen = FALSE
    /\ pc = "not_started"
    /\ is_success = FALSE
    /\ error = Dash
    /\ exc = None
    /\ files = <<>>
    /\ idx = 1
    /\ users = <<>>
    /\ ui = 1
    /\ attachment_list = <<>>
    /\ ri = 1
    /\ tmp = {ForeignFile}
    /\ clock = 1
    /\ collected = 0
    /\ written = <<>>
    /\ archives = <<>>
    /\ sent = <<>>
    /\ removed = <<>>
    /\ caught = None
    /\ assigns = 0
    /\ saves = 0
    /\ commits = 0
    /\ arg = <<>>
    /\ out = <<>>

\* an exception raised inside the try block of _run
Raise(m) == exc' = m /\ pc' = "except"

\* run, lines 224-228, and _run, lines 198-199
Run ==
    /\ pc = "not_started"
    /\ pc' = "recipient_check"
    /\ is_success' = FALSE
    /\ error' = Dash
    /\ UNCHANGED <<probe, inputs, record, effects, is_frozen, exc, caught,
                   files, idx, users, ui, attachment_list, ri>>

\* RecipientCheck without the test of line 202
RecipientCheckNoSkip ==
    /\ pc = "recipient_check"
    /\ pc' = "create_excel"
    /\ files' = <<>>
    /\ idx' = 1
    /\ UNCHANGED <<probe, inputs, record, effects, is_frozen, exc, caught,
                   is_success, error, users, ui, attachment_list, ri>>

\* _run, lines 201-209
RecipientCheck ==
    /\ pc = "recipient_check"
    /\ pc' = IF recipients = {} THEN "else" ELSE "create_excel"
    /\ files' = <<>>
    /\ idx' = 1
    /\ UNCHANGED <<probe, inputs, record, effects, is_frozen, exc, caught,
                   is_success, error, users, ui, attachment_list, ri>>

InCreateExcel == pc = "create_excel" /\ idx <= Len(types)
HasHandler == HandlerLabel(types[idx]) # ""
DataMap == maps[types[idx]]

\* create_excel, lines 141-147: no handler, or an empty data map
CollectSkip ==
    /\ InCreateExcel
    /\ \/ ~HasHandler /\ collected' = collected
       \/ HasHandler /\ DataMap.ok /\ DataMap.data_map = <<>>
            /\ collected' = collected + 1
    /\ idx' = idx + 1
    /\ UNCHANGED <<probe, inputs, record, is_frozen, pc, exc, caught, is_success, error,
                   files, users, ui, attachment_list, ri,
                   tmp, clock, written, archives, sent, removed>>

\* create_excel, line 145: create_row raises KeyError (line 62)
CollectMissingField ==
    /\ InCreateExcel /\ HasHandler
    /\ ~DataMap.ok
    /\ Raise(DataMap.err)
    /\ collected' = collected + 1
    /\ UNCHANGED <<probe, inputs, record, is_frozen, caught, locals,
                   tmp, clock, written, archives, sent, removed>>

\* create_excel, line 145: the account store or the serializer raises
CollectStoreError ==
    /\ InCreateExcel /\ HasHandler
    /\ \E m \in ErrMsgs : Raise(m)
    /\ collected' = collected + 1
    /\ UNCHANGED <<probe, inputs, record, is_frozen, caught, locals,
                   tmp, clock, written, archives, sent, removed>>

\* CollectWrite without files.append(filename)
CollectWriteUntracked ==
    /\ InCreateExcel /\ HasHandler
    /\ DataMap.ok /\ DataMap.data_map # <<>>
    /\ LET filename == get_filename(types[idx], PlanName, clock)
       IN /\ tmp' = tmp \cup {filename}
          /\ written' = Append(written, [path |-> filename, data_map |-> DataMap.data_map])
          /\ files' = files
    /\ clock' = clock + 1
    /\ collected' = collected + 1
    /\ idx' = idx + 1
    /\ UNCHANGED <<probe, inputs, record, is_frozen, pc, exc, caught, is_success, error,
                   users, ui, attachment_list, ri, archives, sent, removed>>

\* create_excel, lines 145-157: the spreadsheet file is written and tracked
CollectWrite ==
    /\ InCreateExcel /\ HasHandler
    /\ DataMap.ok /\ DataMap.data_map # <<>>
    /\ LET filename == get_filename(types[idx], PlanName, clock)
       IN /\ tmp' = tmp \cup {filename}
          /\ written' = Append(written, [path |-> filename, data_map |-> DataMap.data_map])
          /\ files' = Append(files, filename)
    /\ clock' = clock + 1
    /\ collected' = collected + 1
    /\ idx' = idx + 1
    /\ UNCHANGED <<probe, inputs, record, is_frozen, pc, exc, caught, is_success, error,
                   users, ui, attachment_list, ri, archives, sent, removed>>

\* create_excel, lines 151-156: the spreadsheet writer raises; the file may
\* already exist on disk
CollectSaveError ==
    /\ InCreateExcel /\ HasHandler
    /\ DataMap.ok /\ DataMap.data_map # <<>>
    /\ \E m \in ErrMsgs : Raise(m)
    /\ tmp' \in {tmp, tmp \cup {get_filename(types[idx], PlanName, clock)}}
    /\ clock' = clock + 1
    /\ collected' = collected + 1
    /\ UNCHANGED <<probe, inputs, record, is_frozen, caught, locals,
                   written, archives, sent, removed>>

\* create_excel, lines 158-160, and _run, line 210
CreateExcelReturn ==
    /\ pc = "create_excel" /\ idx > Len(types)
    /\ pc' = "send_backup_mail"
    /\ UNCHANGED <<probe, inputs, record, effects, is_frozen, exc, caught, locals>>

\* SendNoFiles with collection started over when it gave no file
SendNoFilesRetries ==
    /\ pc = "send_backup_mail" /\ files = <<>>
    /\ pc' = "create_excel"
    /\ idx' = 1
    /\ UNCHANGED <<probe, inputs, record, effects, is_frozen, exc, caught,
                   is_success, error, files, users, ui, attachment_list, ri>>

\* send_backup_mail, lines 163-164
SendNoFiles ==
    /\ pc = "send_backup_mail" /\ files = <<>>
    /\ pc' = "else"
    /\ UNCHANGED <<probe, inputs, record, effects, is_frozen, exc, caught, locals>>

\* send_backup_mail, lines 165-172: the users among the recipients, in the
\* order the query yields them
SendResolve ==
    /\ pc = "send_backup_mail" /\ files # <<>>
    /\ users' \in Perms(recipients \cap ExistingUsers)
    /\ ui' = 1
    /\ pc' = "for_user"
    /\ UNCHANGED <<probe, inputs, record, effects, is_frozen, exc, caught,
                   is_success, error, files, idx, attachment_list, ri>>

\* send_backup_mail, line 172: the query raises
SendResolveError ==
    /\ pc = "send_backup_mail" /\ files # <<>>
    /\ \E m \in ErrMsgs : Raise(m)
    /\ UNCHANGED <<probe, inputs, record, effects, is_frozen, caught, locals>>

InUserLoop == pc = "for_user" /\ ui <= Len(users)

\* UserNoSecret with the notification skipped for a user without a secret
UserNoSecretSkipsPublish ==
    /\ InUserLoop
    /\ SecretKey(users[ui]) = ""
    /\ attachment_list' = <<>>
    /\ ui' = ui + 1
    /\ UNCHANGED <<probe, inputs, record, effects, is_frozen, pc, exc, caught,
                   is_success, error, files, idx, users, ri>>

\* UserNoSecret with the empty secret encoded all the same, which raises
UserNoSecretRaises ==
    /\ InUserLoop
    /\ SecretKey(users[ui]) = ""
    /\ Raise(Str("short", 5))
    /\ UNCHANGED <<probe, inputs, record, effects, is_frozen, caught, locals>>

\* send_backup_mail, lines 173-174
UserNoSecret ==
    /\ InUserLoop
    /\ SecretKey(users[ui]) = ""
    /\ attachment_list' = <<>>
    /\ pc' = "publish"
    /\ UNCHANGED <<probe, inputs, record, effects, is_frozen, exc, caught,
                   is_success, error, files, idx, users, ui, ri>>

\* UserEncrypt with every archive under the key of the first recipient
UserEncryptFirstKey ==
    /\ InUserLoop
    /\ SecretKey(users[ui]) # ""
    /\ LET password == Encode(SecretKey(users[1]))
           attachment == ArchiveName(PlanName, clock)
       IN /\ tmp' = tmp \cup {attachment}
          /\ archives' = Append(archives, [path |-> attachment, password |-> password,
                                           files |-> files, user |-> users[ui]])
          /\ attachment_list' = <<attachment>>
    /\ clock' = clock + 1
    /\ pc' = "publish"
    /\ UNCHANGED <<probe, inputs, record, is_frozen, exc, caught, is_success, error,
                   files, idx, users, ui, ri, collected, written, sent, removed>>

\* send_backup_mail, lines 176-179
UserEncrypt ==
    /\ InUserLoop
    /\ SecretKey(users[ui]) # ""
    /\ LET password == Encode(SecretKey(users[ui]))
           attachment == ArchiveName(PlanName, clock)
       IN /\ tmp' = tmp \cup {attachment}
          /\ archives' = Append(archives, [path |-> attachment, password |-> password,
                                           files |-> files, user |-> users[ui]])
          /\ attachment_list' = <<attachment>>
    /\ clock' = clock + 1
    /\ pc' = "publish"
    /\ UNCHANGED <<probe, inputs, record, is_frozen, exc, caught, is_success, error,
                   files, idx, users, ui, ri, collected, written, sent, removed>>

\* send_backup_mail, line 178: the archive encryptor raises; the archive may
\* already exist on disk
UserEncryptError ==
    /\ InUserLoop
    /\ SecretKey(users[ui]) # ""
    /\ \E m \in ErrMsgs : Raise(m)
    /\ tmp' \in {tmp, tmp \cup {ArchiveName(PlanName, clock)}}
    /\ clock' = clock + 1
    /\ UNCHANGED <<probe, inputs, record, is_frozen, caught, locals,
                   collected, written, archives, sent, removed>>

\* send_backup_mail, lines 180-181
Publish ==
    /\ pc = "publish"
    /\ sent' = Append(sent, [user |-> users[ui], attachments |-> attachment_list])
    /\ ui' = ui + 1
    /\ pc' = "for_user"
    /\ UNCHANGED <<probe, inputs, record, is_frozen, exc, caught, is_success, error,
                   files, idx, users, attachment_list, ri,
                   tmp, clock, collected, written, archives, removed>>

\* send_backup_mail, line 180: the notification channel raises
PublishError ==
    /\ pc = "publish"
    /\ \E m \in ErrMsgs : Raise(m)
    /\ UNCHANGED <<probe, inputs, record, effects, is_frozen, caught, locals>>

\* UsersDone with the os.remove loop left out
UsersDoneSkipsRemove ==
    /\ pc = "for_user" /\ ui > Len(users)
    /\ pc' = "else"
    /\ ri' = 1
    /\ UNCHANGED <<probe, inputs, record, effects, is_frozen, exc, caught,
                   is_success, error, files, idx, users, ui, attachment_list>>

\* send_backup_mail, line 182: the recipient loop is over
UsersDone ==
    /\ pc = "for_user" /\ ui > Len(users)
    /\ pc' = "remove"
    /\ ri' = 1
    /\ UNCHANGED <<probe, inputs, record, effects, is_frozen, exc, caught,
                   is_success, error, files, idx, users, ui, attachment_list>>

InRemoveLoop == pc = "remove" /\ ri <= Len(files)

\* RemoveFile that empties the temporary directory
RemoveFileClearsDir ==
    /\ InRemoveLoop
    /\ files[ri] \in tmp
    /\ tmp' = {}
    /\ removed' = Append(removed, files[ri])
    /\ ri' = ri + 1
    /\ UNCHANGED <<probe, inputs, record, is_frozen, pc, exc, caught, is_success, error,
                   files, idx, users, ui, attachment_list,
                   clock, collected, written, archives, sent>>

\* send_backup_mail, lines 182-183
RemoveFile ==
    /\ InRemoveLoop
    /\ files[ri] \in tmp
    /\ tmp' = tmp \ {files[ri]}
    /\ removed' = Append(removed, files[ri])
    /\ ri' = ri + 1
    /\ UNCHANGED <<probe, inputs, record, is_frozen, pc, exc, caught, is_success, error,
                   files, idx, users, ui, attachment_list,
                   clock, collected, written, archives, sent>>

\* send_backup_mail, line 183: os.remove raises
RemoveError ==
    /\ InRemoveLoop
    /\ \E m \in ErrMsgs : Raise(m)
    /\ UNCHANGED <<probe, inputs, record, effects, is_frozen, caught, locals>>

\* send_backup_mail returns after the last os.remove
SendReturn ==
    /\ pc = "remove" /\ ri > Len(files)
    /\ pc' = "else"
    /\ UNCHANGED <<probe, inputs, record, effects, is_frozen, exc, caught, locals>>

\* Except with the failure written to the record in the handler as well
ExceptUpdatesRecord ==
    /\ pc = "except"
    /\ is_frozen' = TRUE
    /\ error' = exc
    /\ caught' = exc
    /\ exc' = None
    /\ execution' = [reason |-> Slice(exc, ReasonMax), is_success |-> FALSE]
    /\ saved' = execution'
    /\ assigns' = assigns + 1
    /\ saves' = saves + 1
    /\ commits' = commits + 1
    /\ pc' = "finally"
    /\ UNCHANGED <<probe, inputs, effects, is_success,
                   files, idx, users, ui, attachment_list, ri>>

\* Except as if the try block stood inside the loops: the error is recorded
\* and the loop that raised goes on with its next item
ExceptResumes ==
    /\ pc = "except"
    /\ is_frozen' = TRUE
    /\ error' = exc
    /\ caught' = exc
    /\ exc' = None
    /\ IF idx < Len(types)
       THEN pc' = "create_excel" /\ idx' = idx + 1 /\ ui' = ui
       ELSE IF ui < Len(users)
       THEN pc' = "for_user" /\ ui' = ui + 1 /\ idx' = idx
       ELSE pc' = "finally" /\ ui' = ui /\ idx' = idx
    /\ UNCHANGED <<probe, inputs, record, effects, is_success,
                   files, users, attachment_list, ri>>

\* Except without self.is_frozen = True
ExceptNoFreeze ==
    /\ pc = "except"
    /\ error' = exc
    /\ caught' = exc
    /\ exc' = None
    /\ pc' = "finally"
    /\ UNCHANGED <<probe, inputs, record, effects, is_frozen, is_success,
                   files, idx, users, ui, attachment_list, ri>>

\* _run, lines 211-216
Except ==
    /\ pc = "except"
    /\ is_frozen' = TRUE
    /\ error' = exc
    /\ caught' = exc
    /\ exc' = None
    /\ pc' = "finally"
    /\ UNCHANGED <<probe, inputs, record, effects, is_success,
                   files, idx, users, ui, attachment_list, ri>>

\* _run, lines 217-218
Else ==
    /\ pc = "else"
    /\ is_success' = TRUE
    /\ pc' = "finally"
    /\ UNCHANGED <<probe, inputs, record, effects, is_frozen, exc, caught, error,
                   files, idx, users, ui, attachment_list, ri>>

\* Outcome with reason in place of reason[:1024]
OutcomeUntruncated == [reason |-> error, is_success |-> is_success]

\* step_perform_task_update, lines 186-187, with reason = error (line 220)
Outcome == [reason |-> Slice(error, ReasonMax), is_success |-> is_success]

\* Finally with save() called before is_success is assigned
FinallySaveFirst ==
    /\ pc = "finally"
    /\ execution' = Outcome
    /\ saved' = [reason |-> Outcome.reason, is_success |-> execution.is_success]
    /\ assigns' = assigns + 1
    /\ saves' = saves + 1
    /\ commits' = commits + 1
    /\ pc' = "run_finally"
    /\ UNCHANGED <<probe, inputs, effects, is_frozen, exc, caught, locals>>

\* _run, lines 219-222: step_perform_task_update and step_finished
Finally ==
    /\ pc = "finally"
    /\ execution' = Outcome
    /\ saved' = Outcome
    /\ assigns' = assigns + 1
    /\ saves' = saves + 1
    /\ commits' = commits + 1
    /\ pc' = "run_finally"
    /\ UNCHANGED <<probe, inputs, effects, is_frozen, exc, caught, locals>>

\* _run, lines 219-221: execution.save() raises (line 188); the exception
\* leaves _run
FinallySaveError ==
    /\ pc = "finally"
    /\ execution' = Outcome
    /\ assigns' = assigns + 1
    /\ saves' = saves + 1
    /\ \E m \in ErrMsgs : exc' = m
    /\ pc' = "run_except"
    /\ UNCHANGED <<probe, inputs, effects, is_frozen, caught, locals, saved, commits>>

\* RunExcept with a raise at the end of the handler
RunExceptReraise ==
    /\ pc = "run_except"
    /\ pc' = "raised"
    /\ UNCHANGED <<probe, inputs, record, effects, is_frozen, exc, caught, locals>>

\* run, lines 229-232
RunExcept ==
    /\ pc = "run_except"
    /\ exc' = None
    /\ pc' = "run_finally"
    /\ UNCHANGED <<probe, inputs, record, effects, is_frozen, caught, locals>>

\* run, lines 233-236
RunFinally ==
    /\ pc = "run_finally"
    /\ pc' = "returned"
    /\ UNCHANGED <<probe, inputs, record, effects, is_frozen, exc, caught, locals>>

Next ==
    \/ Run
    \/ RecipientCheck
    \/ CollectSkip
    \/ CollectMissingField
    \/ CollectStoreError
    \/ CollectWrite
    \/ CollectSaveError
    \/ CreateExcelReturn
    \/ SendNoFiles
    \/ SendResolve
    \/ SendResolveError
    \/ UserNoSecret
    \/ UserEncrypt
    \/ UserEncryptError
    \/ Publish
    \/ PublishError
    \/ UsersDone
    \/ RemoveFile
    \/ RemoveError
    \/ SendReturn
    \/ Except
    \/ Else
    \/ Finally
    \/ FinallySaveError
    \/ RunExcept
    \/ RunFinally

Spec == Init /\ [][Next]_vars

\* ------------------------------------------------------------ properties
\* run has returned to its caller
Returned == pc = "returned"

\* the paths of the spreadsheet files create_excel has saved
WrittenPaths == {written[i].path : i \in 1..Len(written)}

\* the paths of the archives send_backup_mail has built
ArchivePaths == {archives[i].path : i \in 1..Len(archives)}

\* the notifications published to user u
SentTo(u) == {i \in 1..Len(sent) : sent[i].user = u}

\* the archives built for user u
ArchivesOf(u) == {k \in 1..Len(archives) : archives[k].user = u}

\* the outcome of the run: '-' and success, or the message of the exception
\* _run caught, cut to ReasonMax characters, and failure
RunOutcome ==
    IF caught = None THEN [reason |-> Dash, is_success |-> TRUE]
    ELSE [reason |-> [txt |-> caught.txt,
                      len |-> IF caught.len <= ReasonMax THEN caught.len ELSE ReasonMax],
          is_success |-> FALSE]

\* C1: when run has returned, on whatever path, no spreadsheet file that
\* create_excel saved during the run is left in the temporary directory.
C1_NoSpreadsheetLeft == Returned => WrittenPaths \cap tmp = {}

\* C2: when run has returned, the files the run wrote into the temporary
\* directory are gone again: no archive that send_backup_mail built for a
\* recipient is left in it.
C2_NoArchiveLeft == Returned => ArchivePaths \cap tmp = {}

\* C3 (as stated): with an empty recipient snapshot the run collects nothing,
\* writes no spreadsheet, builds no archive, publishes no notification, and
\* on return the persisted Execution Record has is_success = TRUE.
C3_EmptySnapshotSaved ==
    recipients = {} =>
        /\ collected = 0 /\ written = <<>> /\ archives = <<>> /\ sent = <<>>
        /\ tmp = {ForeignFile}
        /\ Returned => commits = 1 /\ saved.is_success = TRUE

\* C3 (amended): with an empty recipient snapshot the run collects nothing,
\* writes no spreadsheet, builds no archive and publishes no notification;
\* the finalize step sets is_success = TRUE and reason '-' on the record and
\* calls save once, and the record is persisted with is_success = TRUE
\* whenever that save does not raise.
C3_EmptySnapshot ==
    recipients = {} =>
        /\ collected = 0 /\ written = <<>> /\ archives = <<>> /\ sent = <<>>
        /\ tmp = {ForeignFile}
        /\ ~is_frozen
        /\ Returned => /\ execution = [reason |-> Dash, is_success |-> TRUE]
                       /\ saves = 1
                       /\ commits = 1 => saved = execution

\* C3 witness: a run with an empty snapshot has returned and its record is
\* persisted as successful.
C3_Witness ==
    /\ Returned /\ recipients = {} /\ types # <<>> /\ accounts # <<>>
    /\ commits = 1 /\ saved.is_success = TRUE

\* positions of the run after the try block of _run was left by an exception
AfterRaise == pc = "except" \/ caught # None

\* C4: once collection or delivery has raised, no further step of them is
\* executed (nothing more is collected, written, archived, published or
\* removed), is_frozen becomes true, and finalize still runs: it sets the
\* record to is_success = FALSE with the message cut to ReasonMax characters.
C4_AbortAndFinalize ==
    /\ [][AfterRaise => /\ effects' = effects
                        /\ pc' \in {"finally", "run_except", "run_finally", "returned"}]_vars
    /\ [](pc = "finally" /\ caught # None => is_frozen /\ assigns = 0)
    /\ [](pc \in {"run_except", "run_finally", "returned"} /\ caught # None =>
            /\ is_frozen
            /\ assigns = 1
            /\ execution.is_success = FALSE
            /\ execution.reason = RunOutcome.reason
            /\ execution.reason.len <= ReasonMax)
    /\ [][pc = "except" => pc' = "finally"]_vars
    /\ [][pc = "finally" => assigns' = assigns + 1 /\ execution' = Outcome]_vars

\* C4 witness: a run whose delivery raised a message longer than ReasonMax
\* after a spreadsheet was written has returned, frozen, with the cut reason.
C4_Witness ==
    /\ Returned /\ caught # None /\ caught.len > ReasonMax
    /\ written # <<>> /\ is_frozen
    /\ execution.reason.len = ReasonMax /\ ~execution.is_success

\* the positions of a run that has not let an exception out of run
RunPositions ==
    {"not_started", "recipient_check", "create_excel", "send_backup_mail",
     "for_user", "publish", "remove", "except", "else", "finally",
     "run_except", "run_finally", "returned"}

\* C5: an exception in flight is always on its way to one of the two handlers
\* (the except clause of _run or of run), no exception ever leaves run, and
\* when run has returned no exception is in flight.
C5_NothingEscapes ==
    /\ exc # None => pc \in {"except", "run_except"}
    /\ pc \in RunPositions
    /\ Returned => exc = None

\* C5 witness: the status write-back itself raised, after the run had already
\* failed, and run returned all the same.
C5_Witness == Returned /\ saves = 1 /\ commits = 0 /\ caught # None /\ exc = None

\* C6 (as stated): whenever run has returned, the outcome of the run is
\* persisted on the Execution Record.
C6_OutcomePersisted == Returned => commits = 1 /\ saved = RunOutcome

\* C6 (amended): whenever run has returned, the finalize step has set the
\* outcome of the run on the record and called save once; the outcome is
\* persisted unless that save raised, and then the persisted record is as it
\* was before the run.
C6_OutcomeRecorded ==
    Returned =>
        /\ assigns = 1 /\ saves = 1 /\ commits \in {0, 1}
        /\ execution = RunOutcome
        /\ commits = 1 => saved = RunOutcome
        /\ commits = 0 => saved = [reason |-> Unset, is_success |-> FALSE]

\* C6 witness: a failed run has returned with its failure persisted.
C6_Witness ==
    Returned /\ commits = 1 /\ caught # None /\ saved = RunOutcome /\ ~saved.is_success

\* C7 (as stated): when run has returned the record was assigned and saved
\* exactly once, and never before collection and delivery were over.
C7_SavedExactlyOnce ==
    /\ Returned => assigns = 1 /\ commits = 1
    /\ pc \notin {"run_except", "run_finally", "returned"} => assigns = 0 /\ commits = 0

\* C7 (amended): the record's fields are assigned exactly once and save is
\* called exactly once, in the finalize step, after collection and delivery
\* have finished or aborted and never before or during them; the save takes
\* effect at most once (not at all when it raises).
C7_MutatedOnce ==
    /\ [](pc \notin {"run_except", "run_finally", "returned"} =>
            /\ assigns = 0 /\ saves = 0 /\ commits = 0
            /\ execution = [reason |-> Unset, is_success |-> FALSE]
            /\ saved = execution)
    /\ [](pc \in {"run_except", "run_finally", "returned"} =>
            assigns = 1 /\ saves = 1 /\ commits \in {0, 1})
    /\ [][record' # record => pc = "finally"]_vars
    /\ [][pc = "finally" => effects' = effects]_vars

\* C7 witness: a run that collected and delivered has returned with one
\* assignment and one save.
C7_Witness ==
    Returned /\ sent # <<>> /\ assigns = 1 /\ saves = 1 /\ commits = 1

\* one notification for u, without attachment when u has no secret, else
\* with one archive
NotifiedOnce(u) ==
    /\ Cardinality(SentTo(u)) = 1
    /\ \A i \in SentTo(u) :
          Len(sent[i].attachments) = IF SecretKey(u) = "" THEN 0 ELSE 1

\* C8 (as stated): in a run with a non-empty snapshot in which no step
\* raises, every recipient of the snapshot gets exactly one notification.
C8_EveryRecipientNotified ==
    Returned /\ recipients # {} /\ caught = None /\ commits = 1 =>
        \A u \in recipients : NotifiedOnce(u)

\* C8 (amended): in a run with a non-empty snapshot in which no step raises
\* and collection produced at least one spreadsheet file, every recipient of
\* the snapshot that still exists as a user gets exactly one notification
\* (no attachment without a secret, one archive otherwise) and nobody else
\* gets one; when collection produced no file, nobody is notified.
C8_ExistingRecipientsNotified ==
    Returned /\ recipients # {} /\ caught = None /\ commits = 1 =>
        /\ files # <<>> =>
              /\ \A u \in recipients \cap ExistingUsers : NotifiedOnce(u)
              /\ \A i \in 1..Len(sent) : sent[i].user \in recipients \cap ExistingUsers
        /\ files = <<>> => sent = <<>>

\* C8 witness: a run has returned after notifying one recipient without an
\* attachment and another with one archive.
C8_Witness ==
    /\ Returned /\ caught = None /\ commits = 1 /\ Len(sent) = 2
    /\ \E i, j \in 1..2 : sent[i].attachments = <<>> /\ Len(sent[j].attachments) = 1

\* C9: for a recipient without a secret the loop body builds no archive,
\* raises nothing and hands an empty attachment list to the notification;
\* after the notification the loop goes on with the next recipient.
C9_NoSecretNoAttachment ==
    /\ [](\A i \in 1..Len(sent) : SecretKey(sent[i].user) = "" => sent[i].attachments = <<>>)
    /\ [](\A k \in 1..Len(archives) : SecretKey(archives[k].user) # "")
    /\ [][InUserLoop /\ SecretKey(users[ui]) = "" =>
            /\ tmp' = tmp /\ archives' = archives /\ clock' = clock
            /\ exc' = None /\ pc' = "publish" /\ attachment_list' = <<>>]_vars
    /\ [][pc = "publish" /\ SecretKey(users[ui]) = "" /\ pc' # "except" =>
            /\ pc' = "for_user" /\ ui' = ui + 1
            /\ sent' = Append(sent, [user |-> users[ui], attachments |-> <<>>])]_vars

\* C9 witness: a successful run has returned in which a recipient without a
\* secret was notified first, with no attachment, and another one after it.
C9_Witness ==
    /\ Returned /\ saved = [reason |-> Dash, is_success |-> TRUE] /\ commits = 1
    /\ Len(sent) = 2 /\ SecretKey(sent[1].user) = "" /\ sent[1].attachments = <<>>
    /\ Len(archives) = 1

\* the recipients whose turn in the loop has built or skipped the archive
Processed ==
    {users[j] : j \in {j \in 1..Len(users) : j < ui \/ (j = ui /\ pc = "publish")}}

\* C10: every archive is built for a recipient with a secret, keyed by that
\* recipient's own secret, and holds all the spreadsheet files collection
\* produced; a recipient has at most one archive, and while the loop runs
\* the archives are exactly those of the processed recipients with a secret.
C10_OneArchivePerSecret ==
    /\ \A k \in 1..Len(archives) :
          /\ SecretKey(archives[k].user) # ""
          /\ archives[k].password = Encode(SecretKey(archives[k].user))
          /\ archives[k].files = [j \in 1..Len(written) |-> written[j].path]
          /\ archives[k].files = files
          /\ Cardinality(ArchivesOf(archives[k].user)) = 1
    /\ \A i \in 1..Len(sent) :
          SecretKey(sent[i].user) # "" =>
              \E k \in ArchivesOf(sent[i].user) : sent[i].attachments = <<archives[k].path>>
    /\ pc \in {"for_user", "publish", "remove"} =>
          /\ {archives[k].user : k \in 1..Len(archives)} =
                {u \in Processed : SecretKey(u) # ""}
          /\ Len(archives) = Cardinality({u \in Processed : SecretKey(u) # ""})

\* C10 witness: a run has returned after building two archives, under two
\* different keys, each holding the same two spreadsheet files.
C10_Witness ==
    /\ Returned /\ Len(archives) = 2 /\ Len(files) = 2
    /\ archives[1].password # archives[2].password
    /\ archives[1].files = archives[2].files

\* C11: when a run with at least one recipient has returned successful, no
\* spreadsheet file it wrote is left in the temporary directory, however many
\* recipients got an archive; and a file is only ever removed once every
\* recipient of the loop has been notified.
C11_SpreadsheetsRemovedAfterLoop ==
    /\ [](Returned /\ caught = None /\ recipients # {} =>
            /\ WrittenPaths \cap tmp = {}
            /\ Len(removed) = Len(written))
    /\ [][removed' # removed =>
            /\ pc = "remove" /\ ui > Len(users) /\ Len(sent) = Len(users)
            /\ sent' = sent /\ archives' = archives]_vars

\* C11 witness: a successful run has returned after writing two spreadsheet
\* files and notifying two recipients, one of them with an archive, and has
\* removed both files.
C11_Witness ==
    /\ Returned /\ caught = None /\ Len(written) = 2
    /\ Len(sent) = 2 /\ Len(archives) = 1
    /\ WrittenPaths \cap tmp = {} /\ Len(removed) = 2

\* ------------------------------------------------- the collectors alone
\* the run's own variables, at rest while a collector or the projector is
\* called on its own
Idle ==
    /\ types = <<>> /\ recipients = {} /\ accounts = <<>>
    /\ maps = CollectorResults(accounts)
    /\ execution = [reason |-> Unset, is_success |-> FALSE]
    /\ saved = [reason |-> Unset, is_success |-> FALSE]
    /\ is_frozen = FALSE /\ is_success = FALSE /\ error = Dash /\ exc = None
    /\ files = <<>> /\ idx = 1 /\ users = <<>> /\ ui = 1
    /\ attachment_list = <<>> /\ ri = 1
    /\ tmp = {ForeignFile} /\ clock = 1 /\ collected = 0
    /\ written = <<>> /\ archives = <<>> /\ sent = <<>> /\ removed = <<>>
    /\ caught = None /\ assigns = 0 /\ saves = 0 /\ commits = 0

\* the account store holds any records, of both categories
CollectInit ==
    /\ Idle
    /\ pc = "call"
    /\ arg \in SeqsUpTo(AccountKinds, MaxStore)
    /\ out = <<>>

\* AppAccountHandler.create_data_map()
CallAppCreateDataMap ==
    /\ pc = "call"
    /\ out' = AppCreateDataMap(arg)
    /\ pc' = "application"
    /\ UNCHANGED <<arg, inputs, record, locals, effects, is_frozen, exc, caught>>

\* AssetAccountHandler.create_data_map()
CallAssetCreateDataMap ==
    /\ pc = "call"
    /\ out' = AssetCreateDataMap(arg)
    /\ pc' = "asset"
    /\ UNCHANGED <<arg, inputs, record, locals, effects, is_frozen, exc, caught>>

CollectNext ==
    \/ CallAppCreateDataMap
    \/ CallAssetCreateDataMap

SpecCollect == CollectInit /\ [][CollectNext]_vars

\* the application accounts of the store, and those of sub-type t, by position
AppsOf(store) == SelectSeq(store, IsApplication)
OfType(apps, t) == {i \in 1..Len(apps) : apps[i].type = t}

\* the header row and the value rows the sample application accounts are to
\* give: labels App, Username, Password
AppHeaderRow == <<"App", "Username", "Password">>
AppValueRow(a) == IF a.type = "mysql" THEN <<"db", "admin", "pw">>
                  ELSE <<"cache", "admin", "pw">>

\* C12: for application accounts of K distinct sub-types the data map has
\* exactly K sheets, one per sub-type label; each sheet starts with the one
\* header row and goes on with one value row per account of that sub-type, in
\* the accounts' order; without accounts there is no sheet.
C12_OneSheetPerSubType ==
    pc = "application" /\ out.ok =>
        LET apps == AppsOf(arg)
            subtypes == {apps[i].type : i \in 1..Len(apps)}
            m == out.data_map
        IN /\ Len(m) = Cardinality(subtypes)
           /\ Keys(m) = {AppTypeLabel(t) : t \in subtypes}
           /\ apps = <<>> => m = <<>>
           /\ \A t \in subtypes :
                 LET rows == Get(m, AppTypeLabel(t))
                 IN /\ Len(rows) = 1 + Cardinality(OfType(apps, t))
                    /\ rows[1] = AppHeaderRow
                    /\ \A i \in OfType(apps, t) :
                          rows[1 + Cardinality({j \in OfType(apps, t) : j <= i})]
                              = AppValueRow(apps[i])
                    /\ \A k \in 2..Len(rows) : rows[k] # AppHeaderRow

\* C12 witness: three application accounts of two sub-types gave two sheets,
\* one of them with a header row and two value rows.
C12_Witness ==
    /\ pc = "application" /\ out.ok /\ Len(AppsOf(arg)) = 3
    /\ Len(out.data_map) = 2
    /\ \E i \in 1..2 : Len(out.data_map[i][2]) = 3

\* ------------------------------------------------- the projector alone
\* serialized records: ordered mappings of at most MaxFields fields each,
\* with leaves a and b, a child object n and a child object m that holds a
\* child object n
LeafEntries == {Leaf(k, v) : k \in {"a", "b"}, v \in {"1", "2"}}
DistinctKeys(s) == \A i, j \in 1..Len(s) : s[i].k = s[j].k => i = j
Mappings(E) == {s \in SeqsUpTo(E, MaxFields) : DistinctKeys(s)}
ChildObjects == {Nested("n", c) : c \in Mappings(LeafEntries)}
RecordEntries ==
    LeafEntries \cup ChildObjects \cup {Nested("m", <<c>>) : c \in ChildObjects}

FlattenInit ==
    /\ Idle
    /\ pc = "call"
    /\ arg \in Mappings(RecordEntries)
    /\ out = <<>>

\* BaseAccountHandler.unpack_data(serializer.data)
CallUnpackData ==
    /\ pc = "call"
    /\ out' = unpack_data(arg, <<>>)
    /\ pc' = "unpacked"
    /\ UNCHANGED <<arg, inputs, record, locals, effects, is_frozen, exc, caught>>

FlattenNext == CallUnpackData

SpecFlatten == FlattenInit /\ [][FlattenNext]_vars

\* the leaves of a record, as <<name, value>>, in depth-first order over the
\* record's own field order
RECURSIVE LeavesOf(_)
LeavesOf(r) ==
    IF r = <<>> THEN <<>>
    ELSE (IF Head(r).dict THEN LeavesOf(Head(r).sub) ELSE <<<<Head(r).k, Head(r).v>>>>)
         \o LeavesOf(Tail(r))

LastOf(L, k) == L[CHOOSE i \in 1..Len(L) :
                    L[i][1] = k /\ \A j \in 1..Len(L) : L[j][1] = k => j <= i][2]

\* C13 (as stated): the flat mapping holds every leaf name exactly once, and
\* a name carried both by a top-level field and inside a child object keeps
\* the child object's value, wherever the two stand in the record.
C13_ChildAlwaysWins ==
    pc = "unpacked" =>
        /\ Keys(out) = {LeavesOf(arg)[i][1] : i \in 1..Len(LeavesOf(arg))}
        /\ \A i, j \in 1..Len(out) : out[i][1] = out[j][1] => i = j
        /\ \A i, j \in 1..Len(arg) :
              ~arg[i].dict /\ arg[j].dict /\ arg[i].k \in Keys(LeavesOf(arg[j].sub)) =>
                  \E c \in 1..Len(arg) :
                      /\ arg[c].dict /\ arg[i].k \in Keys(LeavesOf(arg[c].sub))
                      /\ Get(out, arg[i].k) = LastOf(LeavesOf(arg[c].sub), arg[i].k)

\* C13 (amended): the flat mapping holds every leaf name exactly once, and a
\* name that occurs more than once keeps the value of its last occurrence in
\* depth-first order: a child object's value replaces that of a same-named
\* top-level field before it, and a top-level field after the child object
\* replaces the child's value.
C13_LastInDepthFirstOrderWins ==
    pc = "unpacked" =>
        /\ Keys(out) = {LeavesOf(arg)[i][1] : i \in 1..Len(LeavesOf(arg))}
        /\ \A i, j \in 1..Len(out) : out[i][1] = out[j][1] => i = j
        /\ \A k \in Keys(out) : Get(out, k) = LastOf(LeavesOf(arg), k)

\* C13 witness: a record with a top-level a followed by a child object that
\* carries another a was flattened to the child's a.
C13_Witness ==
    /\ pc = "unpacked"
    /\ arg = <<Leaf("a", "1"), Nested("n", <<Leaf("a", "2"), Leaf("b", "1")>>)>>
    /\ out = <<<<"a", "2">>, <<"b", "1">>>>

\* every call of the run returns or raises: the run always takes its next step
FairSpec == Spec /\ WF_vars(Next)

\* the requested category at position j has a collector and a non-empty data map
Qualified(j) ==
    /\ HandlerLabel(types[j]) # ""
    /\ create_data_map(types[j], accounts).ok
    /\ create_data_map(types[j], accounts).data_map # <<>>

\* the positions create_excel's loop has gone through that are Qualified
QualifiedDone == {j \in 1..(idx - 1) : Qualified(j)}

\* C14: while collection runs and when it has returned, one spreadsheet file
\* has been written for each category gone through that has a collector and
\* a non-empty data map, in the order of the request, holding that data map;
\* the tracked list is exactly the files written; a category without a
\* collector or with an empty data map is passed over with no file and no
\* error.
C14_OneFilePerCategory ==
    /\ [](pc \in {"create_excel", "send_backup_mail"} =>
            /\ Len(written) = Cardinality(QualifiedDone)
            /\ files = [k \in 1..Len(written) |-> written[k].path]
            /\ tmp = {ForeignFile} \cup {files[k] : k \in 1..Len(files)}
            /\ Cardinality({files[k] : k \in 1..Len(files)}) = Len(files)
            /\ \A j \in QualifiedDone :
                  LET w == written[Cardinality({i \in QualifiedDone : i <= j})]
                  IN /\ w.path.label = HandlerLabel(types[j])
                     /\ w.path.ext = "xlsx"
                     /\ w.data_map = create_data_map(types[j], accounts).data_map)
    /\ [](pc = "send_backup_mail" => idx = Len(types) + 1)
    /\ [][InCreateExcel /\ ~HasHandler =>
            /\ pc' = "create_excel" /\ idx' = idx + 1 /\ exc' = None
            /\ written' = written /\ tmp' = tmp /\ collected' = collected]_vars
    /\ [][InCreateExcel /\ HasHandler /\ DataMap.ok /\ DataMap.data_map = <<>>
          /\ pc' # "except" =>
            /\ pc' = "create_excel" /\ idx' = idx + 1 /\ exc' = None
            /\ written' = written /\ tmp' = tmp]_vars

\* C14 witness: collection has returned for a request of two known
\* categories after passing over the first, whose data map was empty, and
\* writing one file for the second.
C14_Witness ==
    /\ pc = "send_backup_mail" /\ Len(types) = 2
    /\ HandlerLabel(types[1]) # "" /\ ~Qualified(1) /\ Qualified(2)
    /\ Len(files) = 1 /\ files[1] \in tmp

\* the try block was left by an error of encryption or notification for the
\* recipient at position ui
DeliveryFailed == AfterRaise /\ ui <= Len(users)

\* the run has gone through the finalize step
Finalized == pc \in {"run_except", "run_finally", "returned"}

\* C15: once encryption or notification has failed for a recipient, that
\* recipient and every later one in the iteration order have no notification
\* and the later ones no archive; the recipients before have theirs, and a
\* notification once published is never taken back; the run is frozen and
\* its record says failed.
C15_DeliveryFailureAborts ==
    /\ [](DeliveryFailed =>
            /\ Len(sent) = ui - 1
            /\ \A j \in 1..Len(sent) : sent[j].user = users[j]
            /\ \A j \in ui..Len(users) : SentTo(users[j]) = {}
            /\ \A j \in (ui + 1)..Len(users) : ArchivesOf(users[j]) = {}
            /\ Cardinality(ArchivesOf(users[ui])) <= 1
            /\ pc # "except" => is_frozen
            /\ Finalized => /\ execution = RunOutcome /\ ~execution.is_success
                            /\ ~saved.is_success
                            /\ commits = 1 => saved = RunOutcome)
    /\ [][Len(sent') >= Len(sent) /\ SubSeq(sent', 1, Len(sent)) = sent]_vars
    /\ [][DeliveryFailed => sent' = sent /\ archives' = archives]_vars

\* C15 witness: a run has returned, failed and frozen, after notifying its
\* first recipient and failing on the second of two.
C15_Witness ==
    /\ Returned /\ DeliveryFailed /\ Len(users) = 2 /\ ui = 2
    /\ Len(sent) = 1 /\ sent[1].user = users[1]
    /\ is_frozen /\ commits = 1 /\ ~saved.is_success /\ saved.reason = RunOutcome.reason

\* the try block was left by an error of create_excel for the category at
\* position idx
CollectionFailed == AfterRaise /\ idx <= Len(types)

\* C16: once collection has failed for a category, no later category is
\* collected, no archive is built, no recipient is resolved or notified and
\* nothing more is written; the run is frozen and its record says failed.
C16_CollectionFailureAborts ==
    /\ [](CollectionFailed =>
            /\ collected = Cardinality({j \in 1..idx : HandlerLabel(types[j]) # ""})
            /\ Len(written) = Cardinality(QualifiedDone)
            /\ archives = <<>> /\ sent = <<>> /\ users = <<>> /\ removed = <<>>
            /\ pc # "except" => is_frozen
            /\ Finalized => /\ execution = RunOutcome /\ ~execution.is_success
                            /\ ~saved.is_success
                            /\ commits = 1 => saved = RunOutcome)
    /\ [][CollectionFailed => effects' = effects /\ idx' = idx]_vars

\* C16 witness: a run has returned, failed and frozen, whose collection
\* failed on the first of two known categories, with recipients waiting.
C16_Witness ==
    /\ Returned /\ CollectionFailed /\ idx = 1 /\ Len(types) = 2
    /\ HandlerLabel(types[2]) # "" /\ collected = 1 /\ recipients \cap ExistingUsers # {}
    /\ sent = <<>> /\ archives = <<>> /\ is_frozen
    /\ commits = 1 /\ ~saved.is_success /\ saved.reason = RunOutcome.reason

\* the phase of the run: 0 NOT_STARTED, 1 COLLECTING, 2 ENCRYPTING_AND_SENDING,
\* 3 leaving the try block, 4 FINALIZED
Phase ==
    CASE pc \in {"not_started", "recipient_check"} -> 0
      [] pc = "create_excel" -> 1
      [] pc \in {"send_backup_mail", "for_user", "publish", "remove"} -> 2
      [] pc \in {"except", "else", "finally"} -> 3
      [] OTHER -> 4

\* C17: the phase of a run never goes back; spreadsheet files are written
\* only while collecting, before any archive or notification; archives and
\* notifications are made only while sending; the record is written only on
\* the way into FINALIZED; with an empty snapshot collecting and sending are
\* passed over; and every run reaches FINALIZED and returns.
C17_PhasesForward ==
    /\ [][Phase' >= Phase]_vars
    /\ [][written' # written =>
            Phase = 1 /\ Phase' = 1 /\ archives = <<>> /\ sent = <<>>]_vars
    /\ [][archives' # archives \/ sent' # sent =>
            Phase = 2 /\ written' = written /\ idx > Len(types)]_vars
    /\ [][record' # record => pc = "finally" /\ Phase' = 4]_vars
    /\ [](Phase = 4 => assigns = 1)
    /\ [](recipients = {} => Phase \notin {1, 2})
    /\ [](recipients # {} /\ Phase >= 3 => idx > Len(types) \/ caught # None \/ pc = "except")
    /\ <>(Phase = 4)
    /\ <>Returned

\* C17 witness: a run has returned that went through all phases: it wrote a
\* spreadsheet, built an archive, published it and wrote its record.
C17_Witness ==
    /\ Returned /\ written # <<>> /\ archives # <<>> /\ sent # <<>> /\ commits = 1

\* the fields the backup of a category declares, and whether the serialized
\* data of account a lacks one of them
DeclaredFields(c) ==
    IF c = "asset" THEN {"hostname", "username", "password"}
    ELSE {"app", "username", "password"}
Lacks(a) == ~(DeclaredFields(a.category) \subseteq Keys(LeavesOf(a.data)))
CategoryLacks(c) ==
    \E i \in 1..Len(accounts) : accounts[i].category = c /\ Lacks(accounts[i])

\* C18: when an account of the category being collected lacks a declared
\* header field, create_data_map does not return: the step raises, the
\* KeyError of create_row names a lacking field, no file is written or
\* tracked for the category, and a run that caught it is frozen and recorded
\* as failed with that message.
C18_MissingFieldPropagates ==
    /\ [](InCreateExcel /\ HasHandler =>
            /\ DataMap.ok <=> ~CategoryLacks(types[idx])
            /\ ~DataMap.ok => /\ DataMap.err = KeyErrorMsg(DataMap.err.txt)
                              /\ DataMap.err.txt \in DeclaredFields(types[idx])
                              /\ DataMap.data_map = <<>>)
    /\ [][InCreateExcel /\ HasHandler /\ CategoryLacks(types[idx]) =>
            /\ pc' = "except" /\ exc' \in {DataMap.err} \cup ErrMsgs
            /\ written' = written /\ files' = files /\ tmp' = tmp
            /\ idx' = idx]_vars
    /\ [](caught # None /\ caught \notin ErrMsgs =>
            /\ CollectionFailed /\ CategoryLacks(types[idx])
            /\ caught = maps[types[idx]].err
            /\ is_frozen
            /\ Finalized => execution = [reason |-> caught, is_success |-> FALSE])

\* C18 witness: a run has returned whose application collector met an account
\* without password after the asset spreadsheet was written; the record holds
\* the KeyError's message and failure.
C18_Witness ==
    /\ Returned /\ caught = KeyErrorMsg("password") /\ idx = 2 /\ Len(written) = 1
    /\ commits = 1 /\ saved = [reason |-> KeyErrorMsg("password"), is_success |-> FALSE]

\* C19: when the finalize step writes the outcome, is_frozen is the negation
\* of the success flag it writes, and a successful run writes the reason '-'.
C19_FrozenIffFailed ==
    /\ pc = "finally" => /\ is_frozen <=> ~is_success
                         /\ is_success => error = Dash
                         /\ is_success <=> caught = None
    /\ Finalized => /\ is_frozen <=> ~execution.is_success
                    /\ execution.is_success => execution.reason = Dash
                    /\ commits = 1 => saved = execution

\* C19 witness: a run that delivered has written success and '-', unfrozen.
C19_Witness ==
    /\ Finalized /\ sent # <<>> /\ ~is_frozen /\ commits = 1
    /\ saved = [reason |-> Dash, is_success |-> TRUE]

\* C20: every path the run removes is a spreadsheet file the run itself
\* wrote and tracked, each is removed at most once, and nothing else ever
\* leaves the temporary directory: not a file of another origin, not an
\* archive.
C20_RemovesOnlyOwnSpreadsheets ==
    /\ [](\A i \in 1..Len(removed) : removed[i] \in WrittenPaths /\ removed[i] = files[i])
    /\ [](\A i, j \in 1..Len(removed) : removed[i] = removed[j] => i = j)
    /\ [](ForeignFile \in tmp /\ ForeignFile \notin WrittenPaths)
    /\ [](ArchivePaths \cap {removed[i] : i \in 1..Len(removed)} = {})
    /\ [][\A f \in tmp \ tmp' :
            f \in WrittenPaths /\ removed' = Append(removed, f)]_vars
    /\ [][removed' # removed =>
            \E f \in tmp : removed' = Append(removed, f) /\ tmp' = tmp \ {f}]_vars

\* C20 witness: a run has returned after removing its two spreadsheet files,
\* with the other file and the archive still in the directory.
C20_Witness ==
    /\ Returned /\ Len(removed) = 2 /\ archives # <<>>
    /\ ForeignFile \in tmp /\ ArchivePaths \subseteq tmp

====
